---- MODULE Spec2Model ----
(***************************************************************************)
(* The two presentational sections of the storefront theme:                *)
(*   TestimonialsItems  (the grouped-items layout, three tracks)           *)
(*   ImageGalleryItem   (the labeled image tile)                           *)
(* Both are pure functions props -> render tree.  The state is one mounted *)
(* section: its type, the props object the host passes, and the tree the   *)
(* last render produced.  Every step is an edit of one property by the     *)
(* host followed by the re-render of the section.                          *)
(*                                                                         *)
(* Encoding of JavaScript values.                                          *)
(*  - a props object is a function from the property names it holds to     *)
(*    their values; an omitted property (undefined) is a name outside      *)
(*    DOMAIN props;                                                        *)
(*  - a primitive value is written as the string JavaScript uses for it    *)
(*    as an object key ("16", "true", "0", "xs"); "" is the empty string,  *)
(*    NaN is "NaN" and null is the reserved string Null;                   *)
(*  - a class string is the sequence of its space-separated tokens, so     *)
(*    the class "" is <<>> and joining with " " is concatenation;          *)
(*  - src is a record: [typeof |-> "string", value |-> s] for a bare       *)
(*    string, and for an object [typeof |-> "object", url |-> u] with or   *)
(*    without an altText field.                                            *)
(***************************************************************************)
EXTENDS Integers, Sequences, FiniteSets, TLC

VARIABLES type, props, tree, edits

vars == <<type, props, tree, edits>>

\* Longest child sequence handed to the layout.
MaxLen == 7

\* Number of property edits the host makes on one mounted section.
MaxEdits == 2

Null == "<null>"

----------------------------------------------------------------------------
(* Generic helpers on props objects and class strings *)

Has(p, k) == k \in DOMAIN p

Put(p, k, v) == (k :> v) @@ p

Omit(p, ks) == [k \in (DOMAIN p) \ ks |-> p[k]]

Tokens(cls) == {cls[i] : i \in 1..Len(cls)}

RECURSIVE Flatten(_)
Flatten(parts) ==
  IF parts = <<>> THEN <<>> ELSE Head(parts) \o Flatten(Tail(parts))

\* clsx(a, b, ...): the truthy arguments joined by one space.  An empty or
\* undefined argument is the empty token sequence and contributes nothing.
clsx(parts) == Flatten(parts)

\* JavaScript truthiness of a primitive in the string encoding.
Truthy(v) == v \notin {"", "NaN", Null}

\* class-variance-authority, one variant of cva(base, {variants, defaultVariants}):
\*   if (variantProp === null) return null;
\*   key = falsyToString(variantProp) || falsyToString(defaultVariantProp);
\*   return variants[variant][key];
\* falsyToString turns booleans and 0 into their strings, which the encoding
\* already does, so only undefined, "" and NaN fall through to the default.
getVariantClassName(table, defaultKey, p, variant) ==
  IF Has(p, variant) /\ p[variant] = Null THEN <<>>
  ELSE LET key == IF Has(p, variant) /\ Truthy(p[variant])
                  THEN p[variant] ELSE defaultKey
       IN  IF key \in DOMAIN table THEN table[key] ELSE <<>>

----------------------------------------------------------------------------
(* TestimonialsItems *)

gapClasses ==
  ("16" :> <<"gap-4">>) @@ ("24" :> <<"gap-6">>) @@
  ("32" :> <<"gap-8">>) @@ ("40" :> <<"gap-10">>)

defaultGap == "32"

\* A plausible slip: validating gap and substituting the default on a miss.
variants_TestimonialsItems_fallback(p) ==
  <<"grid", "lg:grid-cols-3">> \o
    (IF Has(p, "gap") /\ p["gap"] \in DOMAIN gapClasses
     THEN gapClasses[p["gap"]] ELSE gapClasses[defaultGap])

\* variants({ gap })
variants_TestimonialsItems(p) ==
  clsx(<< <<"grid", "lg:grid-cols-3">>,
          getVariantClassName(gapClasses, defaultGap, p, "gap") >>)

\* children?.filter((_, i) => i % 3 === k), i zero-based.
RECURSIVE filterFrom(_, _, _)
filterFrom(children, i, k) ==
  IF i > Len(children) THEN <<>>
  ELSE (IF (i - 1) % 3 = k THEN <<children[i]>> ELSE <<>>)
         \o filterFrom(children, i + 1, k)

\* A plausible slip: taking the index as one-based.
trackChildren_onebased(p, k) ==
  IF Has(p, "children")
  THEN LET ch == p["children"]
           RECURSIVE f(_)
           f(i) == IF i > Len(ch) THEN <<>>
                   ELSE (IF i % 3 = k THEN <<ch[i]>> ELSE <<>>) \o f(i + 1)
       IN  f(1)
  ELSE <<>>

\* The content of track k; undefined children render as nothing.
trackChildren(p, k) ==
  IF Has(p, "children") THEN filterFrom(p["children"], 1, k) ELSE <<>>

\* <div className="space-y-6">{...}</div>
track(p, k) == [className |-> <<"space-y-6">>, children |-> trackChildren(p, k)]

\* let { gap, children, ...rest } = props
rest_TestimonialsItems(p) == Omit(p, {"gap", "children"})

\* A plausible slip: spreading rest after className.
rootAttrs_TestimonialsItems_restLast(p) ==
  rest_TestimonialsItems(p) @@ ("className" :> variants_TestimonialsItems(p))

\* <div ref={ref} {...rest} className={clsx(variants({ gap }))}>
rootAttrs_TestimonialsItems(p) ==
  ("className" :> clsx(<<variants_TestimonialsItems(p)>>)) @@ rest_TestimonialsItems(p)

TestimonialsItems(p) ==
  [root   |-> rootAttrs_TestimonialsItems(p),
   tracks |-> <<track(p, 0), track(p, 1), track(p, 2)>>]

\* schema.inspector[0].inputs: name and defaultValue
schema_TestimonialsItems == << [name |-> "gap", defaultValue |-> "32"] >>

----------------------------------------------------------------------------
(* ImageGalleryItem *)

columnSpanClasses ==
  ("1" :> <<"col-span-1">>) @@ ("2" :> <<"col-span-2">>) @@
  ("3" :> <<"col-span-3">>) @@ ("4" :> <<"col-span-4">>)

borderRadiusClasses ==
  ("0" :> <<>>) @@ ("2" :> <<"rounded-sm">>) @@ ("4" :> <<"rounded">>) @@
  ("6" :> <<"rounded-md">>) @@ ("8" :> <<"rounded-lg">>) @@
  ("10" :> <<"rounded-[10px]">>) @@ ("12" :> <<"rounded-xl">>) @@
  ("14" :> <<"rounded-[14px]">>) @@ ("16" :> <<"rounded-2xl">>) @@
  ("18" :> <<"rounded-[18px]">>) @@ ("20" :> <<"rounded-[20px]">>) @@
  ("22" :> <<"rounded-[22px]">>) @@ ("24" :> <<"rounded-3xl">>)

hideOnMobileClasses ==
  ("true" :> <<"hidden", "sm:block">>) @@ ("false" :> <<>>)

defaultColumnSpan == "1"

\* A plausible slip: the render-time default aligned with the schema's 0.
defaultBorderRadius_schema == "0"

defaultBorderRadius == "8"

defaultHideOnMobile == "false"

\* A plausible slip: an unrecognized key resolved to the default's class.
variants_ImageGalleryItem_fallback(p) ==
  LET pick(table, dflt, name) ==
        IF Has(p, name) /\ p[name] \in DOMAIN table THEN table[p[name]] ELSE table[dflt]
  IN  <<"relative", "h-[--image-height]">>
        \o pick(columnSpanClasses, defaultColumnSpan, "columnSpan")
        \o pick(borderRadiusClasses, defaultBorderRadius, "borderRadius")
        \o pick(hideOnMobileClasses, defaultHideOnMobile, "hideOnMobile")

\* variants({ columnSpan, borderRadius, hideOnMobile })
variants_ImageGalleryItem(p) ==
  clsx(<< <<"relative", "h-[--image-height]">>,
          getVariantClassName(columnSpanClasses, defaultColumnSpan, p, "columnSpan"),
          getVariantClassName(borderRadiusClasses, defaultBorderRadius, p, "borderRadius"),
          getVariantClassName(hideOnMobileClasses, defaultHideOnMobile, p, "hideOnMobile") >>)

fontSizeClasses ==
  [xs |-> <<"text-xs">>, sm |-> <<"text-sm">>, base |-> <<"text-base">>,
   lg |-> <<"text-lg">>, xl |-> <<"text-xl">>]

fontWeightClasses ==
  [normal |-> <<"font-normal">>, medium |-> <<"font-medium">>,
   semibold |-> <<"font-semibold">>, bold |-> <<"font-bold">>]

\* let { src, columnSpan, ..., ...rest } = props
declared_ImageGalleryItem ==
  {"src", "columnSpan", "borderRadius", "hideOnMobile", "label",
   "labelFontSize", "labelColor", "labelFontWeight"}

rest_ImageGalleryItem(p) == Omit(p, declared_ImageGalleryItem)

\* name = 'dflt' in the destructuring: the default applies to undefined only.
withDefault(p, name, dflt) == IF Has(p, name) THEN p[name] ELSE dflt

\* table[key], undefined (no class) when the key is not in the table.
lookup(table, key) == IF key \in DOMAIN table THEN table[key] ELSE <<>>

\* A plausible slip: giving an object without altText its url as altText.
data_altDefault(p) ==
  LET src == p["src"]
  IN  IF src.typeof = "object"
      THEN [url |-> src.url,
            altText |-> IF "altText" \in DOMAIN src THEN src.altText ELSE src.url]
      ELSE [url |-> src.value, altText |-> src.value]

\* let data = typeof src === "object" ? src : { url: src, altText: src };
data(p) ==
  LET src == p["src"]
  IN  IF src.typeof = "object"
      THEN Omit(src, {"typeof"})
      ELSE [url |-> src.value, altText |-> src.value]

\* A plausible slip: the variant classes put on the root wrapper.
rootAttrs_ImageGalleryItem_variants(p) ==
  [className |-> <<"flex", "flex-col">> \o variants_ImageGalleryItem(p)]

\* <div className="flex flex-col">
rootAttrs_ImageGalleryItem(p) == [className |-> <<"flex", "flex-col">>]

\* <div className={clsx("relative overflow-hidden", variants({...}))}>
container(p) ==
  [className |-> clsx(<< <<"relative", "overflow-hidden">>,
                         variants_ImageGalleryItem(p) >>)]

\* The properties <Image> sets after {...rest}, which therefore win over rest.
imageFixed(p) ==
  [className |-> <<"w-full", "h-full", "object-cover", "transition-transform",
                   "duration-300", "hover:scale-105">>,
   loading   |-> "lazy",
   data      |-> data(p),
   width     |-> "800",
   height    |-> "600",
   sizes     |-> "(min-width: 45em) 50vw, 100vw"]
  @@ ("data-motion" :> "slide-in")

\* <Image ref={ref} {...rest} className=... data-motion=... ... />
imageAttrs(p) == imageFixed(p) @@ rest_ImageGalleryItem(p)

\* A plausible slip: testing label for undefined only, so "" renders.
caption_definedOnly(p) ==
  IF Has(p, "label") /\ p["label"] # Null
  THEN << [className |->
             clsx(<< <<"mt-2", "text-center", "font-sans">>,
                     lookup(fontSizeClasses, withDefault(p, "labelFontSize", "base")),
                     lookup(fontWeightClasses, withDefault(p, "labelFontWeight", "normal")) >>),
           style |-> IF Has(p, "labelColor") /\ Truthy(p["labelColor"])
                     THEN << [color |-> p["labelColor"]] >> ELSE <<>>,
           text |-> p["label"]] >>
  ELSE <<>>

\* {label && (<div className={clsx(...)} style={...}>{label}</div>)}
\* The caption is a sequence of zero or one element; style likewise holds
\* zero or one style object.
caption(p) ==
  IF Has(p, "label") /\ Truthy(p["label"])
  THEN << [className |->
             clsx(<< <<"mt-2", "text-center", "font-sans">>,
                     lookup(fontSizeClasses, withDefault(p, "labelFontSize", "base")),
                     lookup(fontWeightClasses, withDefault(p, "labelFontWeight", "normal")) >>),
           style |-> IF Has(p, "labelColor") /\ Truthy(p["labelColor"])
                     THEN << [color |-> p["labelColor"]] >> ELSE <<>>,
           text |-> p["label"]] >>
  ELSE <<>>

ImageGalleryItem(p) ==
  [root      |-> rootAttrs_ImageGalleryItem(p),
   container |-> container(p),
   image     |-> imageAttrs(p),
   caption   |-> caption(p)]

\* schema.inspector[0].inputs: name and defaultValue
schema_ImageGalleryItem ==
  << [name |-> "src", defaultValue |->
        [typeof |-> "string",
         value |-> "https://cdn.shopify.com/s/files/1/0838/0052/3057/files/h2-placeholder-image.svg"]],
     [name |-> "label", defaultValue |-> ""],
     [name |-> "to", defaultValue |-> "/products"],
     [name |-> "columnSpan", defaultValue |-> "1"],
     [name |-> "borderRadius", defaultValue |-> "0"],
     [name |-> "hideOnMobile", defaultValue |-> "false"],
     [name |-> "labelFontSize", defaultValue |-> "base"],
     [name |-> "labelFontWeight", defaultValue |-> "normal"],
     [name |-> "labelColor", defaultValue |-> ""] >>

\* The props object the page builder creates from a schema's defaultValues.
schemaDefaults(schema) ==
  LET idx(n) == CHOOSE i \in 1..Len(schema) : schema[i].name = n
  IN  [n \in {schema[i].name : i \in 1..Len(schema)} |-> schema[idx(n)].defaultValue]

schemaNames(schema) == {schema[i].name : i \in 1..Len(schema)}

----------------------------------------------------------------------------
(* The host: one mounted section, edited one property at a time *)

Layout == "testimonials-items"

Tile == "image-gallery--item"

\* The child sequences the host passes: n distinct nodes, each named by its
\* zero-based position.
ChildSeqs == {[i \in 1..n |-> i - 1] : n \in 0..MaxLen}

\* The values the host may give each property of the layout: the enumeration,
\* values outside it, null, and properties the component does not declare.
values_TestimonialsItems ==
  [gap       |-> {"16", "24", "32", "40", "20", "48", "0", "", Null},
   children  |-> ChildSeqs,
   className |-> {<<"custom">>},
   onClick   |-> {"handler"}]
  @@ ("data-id" :> {"x1"})

srcString == [typeof |-> "string", value |-> "foo.jpg"]

srcObject == [typeof |-> "object", url |-> "bar.jpg", altText |-> "A bar"]

srcObjectNoAlt == [typeof |-> "object", url |-> "baz.jpg"]

values_ImageGalleryItem ==
  [src             |-> {srcString, srcObject, srcObjectNoAlt},
   columnSpan      |-> {"1", "2", "3", "4", "5", "0", "", Null},
   borderRadius    |-> (DOMAIN borderRadiusClasses) \cup {"3", "26", Null},
   hideOnMobile    |-> {"true", "false", "yes", Null},
   label           |-> {"", "Caption", Null},
   labelFontSize   |-> {"xs", "sm", "base", "lg", "xl", "2xl", "", Null},
   labelFontWeight |-> {"normal", "medium", "semibold", "bold", "black", Null},
   labelColor      |-> {"", "#ff0000", Null},
   to              |-> {"/products", "/collections"},
   className       |-> {<<"custom">>},
   loading         |-> {"eager"},
   width           |-> {"400"},
   onClick         |-> {"handler"}]

Render(t, p) == IF t = Layout THEN TestimonialsItems(p) ELSE ImageGalleryItem(p)

\* The first render: with the schema's defaultValues, or with the least a
\* caller can pass (no props for the layout, src alone for the tile).
Init ==
  /\ type \in {Layout, Tile}
  /\ props \in IF type = Layout
               THEN {schemaDefaults(schema_TestimonialsItems),
                     [k \in {} |-> ""]}
               ELSE {schemaDefaults(schema_ImageGalleryItem)}
                      \cup {[k \in {"src"} |-> s] : s \in values_ImageGalleryItem["src"]}
  /\ tree = Render(type, props)
  /\ edits = 0

\* The host changes one property of the layout and re-renders it.
EditTestimonialsItems ==
  /\ type = Layout
  /\ edits < MaxEdits
  /\ \E k \in DOMAIN values_TestimonialsItems :
       \E v \in values_TestimonialsItems[k] :
         /\ ~(Has(props, k) /\ props[k] = v)
         /\ props' = Put(props, k, v)
  /\ tree' = TestimonialsItems(props')
  /\ edits' = edits + 1
  /\ UNCHANGED type

\* The host drops one property of the layout and re-renders it.
UnsetTestimonialsItems ==
  /\ type = Layout
  /\ edits < MaxEdits
  /\ \E k \in DOMAIN props : props' = Omit(props, {k})
  /\ tree' = TestimonialsItems(props')
  /\ edits' = edits + 1
  /\ UNCHANGED type

\* The host changes one property of the tile and re-renders it.
EditImageGalleryItem ==
  /\ type = Tile
  /\ edits < MaxEdits
  /\ \E k \in DOMAIN values_ImageGalleryItem :
       \E v \in values_ImageGalleryItem[k] :
         /\ ~(Has(props, k) /\ props[k] = v)
         /\ props' = Put(props, k, v)
  /\ tree' = ImageGalleryItem(props')
  /\ edits' = edits + 1
  /\ UNCHANGED type

\* The host drops one property of the tile, src excepted, and re-renders it.
UnsetImageGalleryItem ==
  /\ type = Tile
  /\ edits < MaxEdits
  /\ \E k \in (DOMAIN props) \ {"src"} : props' = Omit(props, {k})
  /\ tree' = ImageGalleryItem(props')
  /\ edits' = edits + 1
  /\ UNCHANGED type

Next ==
  \/ EditTestimonialsItems
  \/ UnsetTestimonialsItems
  \/ EditImageGalleryItem
  \/ UnsetImageGalleryItem

Spec == Init /\ [][Next]_vars

----------------------------------------------------------------------------
(* Vocabulary of the properties *)

IsLayout == type = Layout

IsTile == type = Tile

RangeTokens(table) == UNION {Tokens(table[k]) : k \in DOMAIN table}

ColSpanTokens == RangeTokens(columnSpanClasses)

RadiusTokens == RangeTokens(borderRadiusClasses)

HiddenTokens == RangeTokens(hideOnMobileClasses)

GapTokens == RangeTokens(gapClasses)

LayoutBase == <<"grid", "lg:grid-cols-3">>

ContainerBase == <<"relative", "overflow-hidden", "relative", "h-[--image-height]">>

CaptionBase == <<"mt-2", "text-center", "font-sans">>

\* The children the layout received, none when the property is omitted.
GivenChildren == IF Has(props, "children") THEN props["children"] ELSE <<>>

TrackOf(k) == tree.tracks[k + 1].children

----------------------------------------------------------------------------
\* C1: the layout always renders exactly three tracks; track k holds exactly
\* the children at the zero-based positions i with i mod 3 = k, in their
\* original order; every child is in exactly one track, the sizes add up to n
\* and differ by at most 1; with no children the three tracks are empty, and
\* seven children give [0,3,6], [1,4], [2,5].
C1_TracksPartitionByIndexMod3 ==
  IsLayout =>
    LET ch == GivenChildren
        n  == Len(ch)
    IN  /\ Len(tree.tracks) = 3
        /\ \A k \in 0..2 :
             /\ Len(TrackOf(k)) = Cardinality({i \in 0..(n - 1) : i % 3 = k})
             /\ \A j \in 1..Len(TrackOf(k)) : TrackOf(k)[j] = ch[3 * (j - 1) + k + 1]
        /\ \A i \in 1..n :
             Cardinality({<<k, j>> \in (0..2) \X (1..n) :
                            j <= Len(TrackOf(k)) /\ TrackOf(k)[j] = ch[i]}) = 1
        /\ Len(TrackOf(0)) + Len(TrackOf(1)) + Len(TrackOf(2)) = n
        /\ \A a, b \in 0..2 : Len(TrackOf(a)) - Len(TrackOf(b)) \in {-1, 0, 1}
        /\ (n = 0 => \A k \in 0..2 : TrackOf(k) = <<>>)
        /\ (n = 7 => /\ TrackOf(0) = <<ch[1], ch[4], ch[7]>>
                     /\ TrackOf(1) = <<ch[2], ch[5]>>
                     /\ TrackOf(2) = <<ch[3], ch[6]>>)

C1_Witness_SevenChildren ==
  /\ IsLayout
  /\ Has(props, "children")
  /\ Len(props["children"]) = 7
  /\ TrackOf(0) = <<0, 3, 6>>
  /\ TrackOf(1) = <<1, 4>>
  /\ TrackOf(2) = <<2, 5>>

----------------------------------------------------------------------------
\* C2 as stated: whenever gap is supplied with a value outside {16,24,32,40}
\* the root class is the one rendered for the default gap 32, i.e. it ends in
\* gap-8.
C2_Original_MissFallsBackToDefault ==
  (IsLayout /\ Has(props, "gap") /\ props["gap"] \notin {"16", "24", "32", "40"})
    => tree.root["className"] = LayoutBase \o <<"gap-8">>

\* C2 amended: each gap in {16,24,32,40} gives exactly its spacing class
\* (gap-4, gap-6, gap-8, gap-10); an omitted gap (and the falsy "" or NaN)
\* gives the default's gap-8; null and every other value outside the set give
\* the base class alone, with no gap class at all.
C2_MissGivesNoGapClass ==
  IsLayout =>
    LET cls == tree.root["className"]
    IN  /\ ~Has(props, "gap") => cls = LayoutBase \o <<"gap-8">>
        /\ Has(props, "gap") =>
             LET g == props["gap"]
             IN  /\ g = "16" => cls = LayoutBase \o <<"gap-4">>
                 /\ g = "24" => cls = LayoutBase \o <<"gap-6">>
                 /\ g = "32" => cls = LayoutBase \o <<"gap-8">>
                 /\ g = "40" => cls = LayoutBase \o <<"gap-10">>
                 /\ g \in {"", "NaN"} => cls = LayoutBase \o <<"gap-8">>
                 /\ g \notin {"16", "24", "32", "40", "", "NaN"} => cls = LayoutBase

C2_Witness_Gap20NoClass ==
  /\ IsLayout
  /\ Has(props, "gap")
  /\ props["gap"] = "20"
  /\ Tokens(tree.root["className"]) \cap GapTokens = {}

----------------------------------------------------------------------------
\* The spacing token a gap of the enumeration stands for.
GapStep == ("16" :> "4") @@ ("24" :> "6") @@ ("32" :> "8") @@ ("40" :> "10")

InEnumGap(p) == Has(p, "gap") /\ p["gap"] \in DOMAIN GapStep

\* C3 as stated: when a re-render changes gap between two values of
\* {16,24,32,40} that map to different tokens, the root container's spacing
\* class changes and so does the internal spacing class of each track.
C3_TrackSpacingFollowsGap ==
  [][(IsLayout /\ InEnumGap(props) /\ InEnumGap(props')
        /\ GapStep[props["gap"]] # GapStep[props'["gap"]])
      => /\ tree'.root["className"] # tree.root["className"]
         /\ \A k \in 1..3 : tree'.tracks[k].className # tree.tracks[k].className]_vars

----------------------------------------------------------------------------
\* The class tokens one variant of the tile contributes to the container:
\* those of the container's class that belong to the variant's table.
Contribution(universe) ==
  {tree.container.className[i] : i \in
     {j \in (Len(ContainerBase) + 1)..Len(tree.container.className) :
        tree.container.className[j] \in universe}}

\* A supplied value outside the table that is neither omitted nor falsy.
Unrecognized(name, table) ==
  Has(props, name) /\ props[name] \notin (DOMAIN table) \cup {"", "NaN"}

\* C4: each columnSpan in {1,2,3,4} and each borderRadius in {0,2,...,24}
\* contributes exactly the class of its table entry; a columnSpan,
\* borderRadius or hideOnMobile outside its enumeration contributes no class
\* (the default's class when the value is omitted or falsy), a labelFontSize
\* or labelFontWeight outside its enumeration adds no class to the caption,
\* and the container never carries a class that is in none of the tables.
C4_UnrecognizedKeyAddsNoClass ==
  IsTile =>
    /\ Tokens(tree.container.className)
         \subseteq Tokens(ContainerBase) \cup ColSpanTokens \cup RadiusTokens \cup HiddenTokens
    /\ (Has(props, "columnSpan") /\ props["columnSpan"] \in {"1", "2", "3", "4"})
         => /\ Contribution(ColSpanTokens) = Tokens(columnSpanClasses[props["columnSpan"]])
            /\ Cardinality(Contribution(ColSpanTokens)) = 1
    /\ (Has(props, "borderRadius") /\ props["borderRadius"] \in DOMAIN borderRadiusClasses)
         => /\ Contribution(RadiusTokens) = Tokens(borderRadiusClasses[props["borderRadius"]])
            /\ Cardinality(Contribution(RadiusTokens)) <= 1
    /\ (Has(props, "hideOnMobile") /\ props["hideOnMobile"] \in {"true", "false"})
         => Contribution(HiddenTokens) = Tokens(hideOnMobileClasses[props["hideOnMobile"]])
    /\ Unrecognized("columnSpan", columnSpanClasses) => Contribution(ColSpanTokens) = {}
    /\ Unrecognized("borderRadius", borderRadiusClasses) => Contribution(RadiusTokens) = {}
    /\ Unrecognized("hideOnMobile", hideOnMobileClasses) => Contribution(HiddenTokens) = {}
    /\ (~Has(props, "columnSpan") \/ (Has(props, "columnSpan") /\ props["columnSpan"] = ""))
         => Contribution(ColSpanTokens) = {"col-span-1"}
    /\ \A c \in 1..Len(tree.caption) :
         /\ (Has(props, "labelFontSize") /\ props["labelFontSize"] \notin DOMAIN fontSizeClasses)
              => Tokens(tree.caption[c].className) \cap RangeTokens(fontSizeClasses) = {}
         /\ (Has(props, "labelFontWeight") /\ props["labelFontWeight"] \notin DOMAIN fontWeightClasses)
              => Tokens(tree.caption[c].className) \cap RangeTokens(fontWeightClasses) = {}

C4_Witness_OutOfRangeSpanAndRadius ==
  /\ IsTile
  /\ Has(props, "columnSpan") /\ props["columnSpan"] = "5"
  /\ Has(props, "borderRadius") /\ props["borderRadius"] = "26"
  /\ tree.container.className = ContainerBase

----------------------------------------------------------------------------
Descriptor == tree.image["data"]

\* C5 as stated: the descriptor handed to the image renderer always has a
\* locator and an alternate text, and a record given without alternate text
\* gets its locator as alternate text.
C5_Original_AltTextDefaulted ==
  IsTile =>
    /\ {"url", "altText"} \subseteq DOMAIN Descriptor
    /\ (props["src"].typeof = "object" /\ "altText" \notin DOMAIN props["src"])
         => Descriptor["altText"] = props["src"].url

\* C5 amended: a bare string s is normalized to {url: s, altText: s}; a
\* structured record is handed over unchanged, with its alternate text when it
\* has one and still without one when it has none.
C5_RecordPassedUnchanged ==
  IsTile =>
    LET src == props["src"]
    IN  /\ src.typeof = "string" =>
             /\ DOMAIN Descriptor = {"url", "altText"}
             /\ Descriptor["url"] = src.value
             /\ Descriptor["altText"] = src.value
        /\ src.typeof = "object" =>
             /\ DOMAIN Descriptor = (DOMAIN src) \ {"typeof"}
             /\ \A f \in DOMAIN Descriptor : Descriptor[f] = src[f]

C5_Witness_RecordWithoutAltText ==
  /\ IsTile
  /\ props["src"].typeof = "object"
  /\ "altText" \notin DOMAIN props["src"]
  /\ DOMAIN Descriptor = {"url"}

----------------------------------------------------------------------------
\* C6: a caption is rendered exactly when label is a non-empty string; it
\* then shows exactly the label, carries the classes of labelFontSize and
\* labelFontWeight (text-base and font-normal when they are omitted), and an
\* inline color exactly when labelColor is supplied and non-empty.
C6_CaptionIffLabelNonEmpty ==
  IsTile =>
    LET labelled == Has(props, "label") /\ props["label"] \notin {"", Null}
    IN  /\ Len(tree.caption) = (IF labelled THEN 1 ELSE 0)
        /\ labelled =>
             LET cap == tree.caption[1]
                 coloured == Has(props, "labelColor") /\ props["labelColor"] \notin {"", Null}
             IN  /\ cap.text = props["label"]
                 /\ ~Has(props, "labelFontSize") => "text-base" \in Tokens(cap.className)
                 /\ ~Has(props, "labelFontWeight") => "font-normal" \in Tokens(cap.className)
                 /\ (Has(props, "labelFontSize") /\ props["labelFontSize"] \in DOMAIN fontSizeClasses)
                      => Tokens(cap.className) \cap RangeTokens(fontSizeClasses)
                           = Tokens(fontSizeClasses[props["labelFontSize"]])
                 /\ (Has(props, "labelFontWeight") /\ props["labelFontWeight"] \in DOMAIN fontWeightClasses)
                      => Tokens(cap.className) \cap RangeTokens(fontWeightClasses)
                           = Tokens(fontWeightClasses[props["labelFontWeight"]])
                 /\ Tokens(CaptionBase) \subseteq Tokens(cap.className)
                 /\ Len(cap.style) = (IF coloured THEN 1 ELSE 0)
                 /\ coloured => cap.style[1].color = props["labelColor"]

C6_Witness_CaptionWithDefaultsAndColor ==
  /\ IsTile
  /\ Has(props, "label") /\ props["label"] = "Caption"
  /\ ~Has(props, "labelFontSize") /\ ~Has(props, "labelFontWeight")
  /\ Has(props, "labelColor") /\ props["labelColor"] = "#ff0000"
  /\ Len(tree.caption) = 1
  /\ tree.caption[1].className = CaptionBase \o <<"text-base", "font-normal">>
  /\ tree.caption[1].style = << [color |-> "#ff0000"] >>

----------------------------------------------------------------------------
\* C7 as stated: every input name a schema declares is a parameter its
\* component reads itself, so none of them is left among the unrecognized
\* properties that are passed through, and every parameter the tile reads is
\* declared in its schema.
C7_SchemaNamesAreConsumed ==
  /\ IsLayout => schemaNames(schema_TestimonialsItems) \cap DOMAIN rest_TestimonialsItems(props) = {}
  /\ IsTile =>
       /\ \A n \in schemaNames(schema_ImageGalleryItem) : n \notin DOMAIN tree.image
       /\ declared_ImageGalleryItem \subseteq schemaNames(schema_ImageGalleryItem)

----------------------------------------------------------------------------
Declared == IF IsLayout THEN {"gap", "children"} ELSE declared_ImageGalleryItem

\* C8 as stated: in both components every received property that is not a
\* declared parameter reaches the root node of the render tree with the
\* caller's value.
C8_Original_RestReachesRoot ==
  \A k \in (DOMAIN props) \ Declared :
    k \in DOMAIN tree.root /\ tree.root[k] = props[k]

\* The properties the tile sets on the image itself.
ImageOwn == {"className", "data-motion", "loading", "data", "width", "height", "sizes"}

\* C8 amended: the layout forwards every undeclared property except className
\* unchanged to its root container, whose className is always the variant
\* class; the tile forwards every undeclared property except className,
\* data-motion, loading, data, width, height and sizes unchanged to the image
\* renderer, not to its root wrapper, and sets those seven itself.
C8_RestForwardedExceptOverridden ==
  /\ IsLayout =>
       /\ \A k \in (DOMAIN props) \ (Declared \cup {"className"}) :
            k \in DOMAIN tree.root /\ tree.root[k] = props[k]
       /\ DOMAIN tree.root = ((DOMAIN props) \ Declared) \cup {"className"}
       /\ "custom" \notin Tokens(tree.root["className"])
       /\ Len(tree.root["className"]) >= 2
       /\ SubSeq(tree.root["className"], 1, 2) = LayoutBase
  /\ IsTile =>
       /\ \A k \in (DOMAIN props) \ (Declared \cup ImageOwn) :
            k \in DOMAIN tree.image /\ tree.image[k] = props[k]
       /\ DOMAIN tree.image = ((DOMAIN props) \ Declared) \cup ImageOwn
       /\ DOMAIN tree.root = {"className"}
       /\ tree.image["loading"] = "lazy"
       /\ tree.image["width"] = "800"
       /\ "custom" \notin Tokens(tree.image["className"])

C8_Witness_CallerClassNameReplaced ==
  /\ IsLayout
  /\ Has(props, "className") /\ props["className"] = <<"custom">>
  /\ Has(props, "onClick")
  /\ tree.root["onClick"] = "handler"
  /\ tree.root["className"] = LayoutBase \o <<"gap-8">>

----------------------------------------------------------------------------
SchemaDefault(schema, n) == schemaDefaults(schema)[n]

\* C9: omitting gap renders what the schema default 32 renders, and omitting
\* columnSpan, hideOnMobile, labelFontSize or labelFontWeight renders what the
\* schema default 1, false, base or normal renders; omitting borderRadius
\* renders rounded-lg, whereas the schema default 0 renders no rounding class.
C9_DefaultsAgreeExceptBorderRadius ==
  /\ (IsLayout /\ ~Has(props, "gap"))
       => tree = TestimonialsItems(Put(props, "gap", SchemaDefault(schema_TestimonialsItems, "gap")))
  /\ IsTile =>
       /\ \A n \in {"columnSpan", "hideOnMobile", "labelFontSize", "labelFontWeight"} :
            ~Has(props, n)
              => tree = ImageGalleryItem(Put(props, n, SchemaDefault(schema_ImageGalleryItem, n)))
       /\ ~Has(props, "borderRadius") =>
            LET atSchema == ImageGalleryItem(
                              Put(props, "borderRadius",
                                  SchemaDefault(schema_ImageGalleryItem, "borderRadius")))
            IN  /\ Contribution(RadiusTokens) = {"rounded-lg"}
                /\ Tokens(atSchema.container.className) \cap RadiusTokens = {}
                /\ atSchema # tree

C9_Witness_AllStyleDefaultsOmitted ==
  /\ IsTile
  /\ DOMAIN props = {"src", "label"}
  /\ props["label"] = "Caption"
  /\ "rounded-lg" \in Tokens(tree.container.className)
  /\ "col-span-1" \in Tokens(tree.container.className)

----------------------------------------------------------------------------
\* C10: the root wrapper of the tile has exactly the class "flex flex-col"
\* and the caption and the image never carry a hidden, col-span or rounding
\* class; with hideOnMobile true and a non-empty label the container carries
\* "hidden sm:block" and the caption is still rendered without it.
C10_VariantClassesOnContainerOnly ==
  IsTile =>
    /\ tree.root = [className |-> <<"flex", "flex-col">>]
    /\ \A c \in 1..Len(tree.caption) :
         Tokens(tree.caption[c].className)
           \cap (HiddenTokens \cup ColSpanTokens \cup RadiusTokens) = {}
    /\ Tokens(tree.image["className"])
         \cap (HiddenTokens \cup ColSpanTokens \cup RadiusTokens) = {}
    /\ (/\ Has(props, "hideOnMobile") /\ props["hideOnMobile"] = "true"
        /\ Has(props, "label") /\ props["label"] \notin {"", Null})
         => /\ SubSeq(tree.container.className,
                      Len(tree.container.className) - 1,
                      Len(tree.container.className)) = <<"hidden", "sm:block">>
            /\ Len(tree.caption) = 1

C10_Witness_HiddenImageVisibleCaption ==
  /\ IsTile
  /\ Has(props, "hideOnMobile") /\ props["hideOnMobile"] = "true"
  /\ Has(props, "label") /\ props["label"] = "Caption"
  /\ {"hidden", "sm:block"} \subseteq Tokens(tree.container.className)
  /\ Len(tree.caption) = 1

====
